---- MODULE Spec2Model ----
(***************************************************************************)
(* The About-us page of the Freshly site: the page component About, the    *)
(* section components Team and FarmingSystems, the leaf card FarmCard and  *)
(* the Tailwind style configuration.                                       *)
(*                                                                         *)
(* A component is modelled by the React element tree its function returns: *)
(* an element is [type, props, children], props without the children, a    *)
(* JSX text child is an element of type "#text".  The state is what the    *)
(* browser holds around these functions: the tree on screen, the renders   *)
(* made so far, the clicks delivered to the Team section's button, the     *)
(* last card rendered and the exported configuration object.               *)
(***************************************************************************)
EXTENDS Integers, Sequences, FiniteSets, TLC

VARIABLES history, screen, clicks, card, config

vars == <<history, screen, clicks, card, config>>

\* Bounds of the model: renders kept in the history, clicks delivered.
MaxRenders == 3
MaxClicks == 2

---------------------------------------------------------------------------
(* React elements *)

El(type, props, children) ==
    [type |-> type, props |-> props, children |-> children]

Text(s) == El("#text", [value |-> s], <<>>)

NoProps == <<>>

RECURSIVE Concat(_)
Concat(seqs) ==
    IF seqs = <<>> THEN <<>> ELSE Head(seqs) \o Concat(Tail(seqs))

\* Every element of a tree, in document order.
RECURSIVE Flatten(_)
Flatten(e) ==
    <<e>> \o Concat([i \in 1..Len(e.children) |-> Flatten(e.children[i])])

ChildTypes(e) == [i \in 1..Len(e.children) |-> e.children[i].type]

OfType(e, type) == SelectSeq(Flatten(e), LAMBDA x : x.type = type)

\* The text directly inside an element.
TextOf(e) == [i \in 1..Len(e.children) |-> e.children[i].props.value]

---------------------------------------------------------------------------
(* Style configuration *)

TailwindConfig_preflightOn ==
    [ purge |-> << "./src/**/*.{js,jsx,ts,tsx}", "./public/index.html" >>,
      darkMode |-> FALSE,
      theme |-> [extend |-> <<>>],
      variants |-> [extend |-> <<>>],
      plugins |-> <<>>,
      corePlugins |-> [preflight |-> TRUE] ]

TailwindConfig ==
    [ purge |-> << "./src/**/*.{js,jsx,ts,tsx}", "./public/index.html" >>,
      darkMode |-> FALSE,
      theme |-> [extend |-> <<>>],
      variants |-> [extend |-> <<>>],
      plugins |-> <<>>,
      corePlugins |-> [preflight |-> FALSE] ]

---------------------------------------------------------------------------
(* Team section *)

FreshlyQuote ==
    "\"Freshly Farm's expertise has empowered our local farmers, improving the quality and quantity of our community garden's harvests.\""

LoremQuote ==
    "\"Lorem ipsum dolor sit amet, consectetur adipiscing elit, sed do eiusmod tempor incididunt ut labore et dolore magna aliqua.\""

\* One member block: avatar, name, role, testimonial.
TeamMember(blockClass, quote) ==
    El("div", [className |-> blockClass],
       << El("div",
             [className |-> "mx-auto bg-cover bg-center w-[131px] h-[130px] flex-shrink-0 rounded-full border-[18px] border-[#008000]",
              style |-> [backgroundImage |-> "url('/static/media/teamMember.png')"]],
             <<>>),
          El("p", [className |-> "text-black text-[24px] font-[700] font-inter"],
             << Text("Malaika Muchiri") >>),
          El("p", [className |-> "text-[#008000] text-[20px] font-[700] font-inter"],
             << Text("Chief Executive Officer") >>),
          El("p", [className |-> "text-black text-[16px] font-[300] w-[199px] font-josefin  leading-[20.8px] text-start"],
             << Text(quote) >>) >>)

FirstRowClass == "block mx-auto w-[204px] space-y-[12px] relative"
SecondRowClass == "block space-y-[12px] relative"

TeamHeading ==
    El("h5", [className |-> "text-[#008000] text-[45px] text-center font-inter pt-[150px] "],
       << Text("Meet Our Team") >>)

TeamFirstRow ==
    El("div", [className |-> "flex flex-wrap  justify-between  w-[100%] space-y-[20px] lg:space-y-[0px]  "],
       << TeamMember(FirstRowClass, FreshlyQuote),
          TeamMember(FirstRowClass, LoremQuote),
          TeamMember(FirstRowClass, FreshlyQuote) >>)

TeamSecondRow ==
    El("div", [className |-> "flex flex-wrap justify-center mt-[71px] lg:space-x-[235px]  w-[100%]  space-y-[20px] lg:space-y-[0px]"],
       << TeamMember(SecondRowClass, LoremQuote),
          TeamMember(SecondRowClass, LoremQuote),
          TeamMember(SecondRowClass, LoremQuote) >>)

\* The button carries a className and its label, and no onClick.
ViewAllButton ==
    El("button", [className |-> "w-[272px] h-[70px] bg-[#008000] rounded-[15px] mt-[62px] text-white text-[25px] border-none"],
       << Text("View All") >>)

TeamButtonRow ==
    El("div", [className |-> "flex justify-center mt-[120px]"], << ViewAllButton >>)

Team_shortRow ==
    El("div", [className |-> "block "],
       << TeamHeading,
          TeamFirstRow,
          El("div", TeamSecondRow.props, SubSeq(TeamSecondRow.children, 1, 2)),
          TeamButtonRow >>)

\* A Team whose output depends on the clicks received so far.
Team_stateful ==
    El("div", [className |-> "block "],
       << TeamHeading, TeamFirstRow >>
       \o (IF clicks > 0 THEN << TeamSecondRow >> ELSE <<>>)
       \o << TeamButtonRow >>)

Team ==
    El("div", [className |-> "block "],
       << TeamHeading, TeamFirstRow, TeamSecondRow, TeamButtonRow >>)

---------------------------------------------------------------------------
(* Farming systems section *)

FarmBody ==
    "Lorem ipsum dolor sit amet, consectetur adipiscing elit, sed do eiusmod tempor incididunt ut labore et dolore magna aliqua. Ut enim ad minim veniam, quis nostrud exercitation ullamco laboris nisi ut."

FarmCardEl(number, img, title, body) ==
    El("FarmCard", [number |-> number, img |-> img, title |-> title, body |-> body], <<>>)

FarmCardRecords_dropped ==
    << FarmCardEl(1, "/static/media/veggieRack.png", "Hydroponics System", FarmBody),
       FarmCardEl(4, "/static/media/veggieFish.png", "Aquaponics System", FarmBody) >>

\* The three <FarmCard .../> elements, with the props the section passes.
FarmCardRecords ==
    << FarmCardEl(1, "/static/media/veggieRack.png", "Hydroponics System", FarmBody),
       FarmCardEl(2, "/static/media/veggieRack2.png", "Vertical System", FarmBody),
       FarmCardEl(4, "/static/media/veggieFish.png", "Aquaponics System", FarmBody) >>

FarmingSystems ==
    El("div", [className |-> "block overflow-x-hidden"],
       << El("div", [className |-> "flex justify-center items-center"],
             << El("div", [className |-> "block"],
                   << El("h3", [className |-> "text-[25px] lg:text-[40px] font-[900] font-inter text-[#008000] text-center"],
                         << Text("POPULAR FARMING SYSTEMS") >>),
                      El("div", [className |-> "block space-y-[20px] lg:flex lg:space-x-[20px]"],
                         FarmCardRecords) >>) >>) >>)

---------------------------------------------------------------------------
(* Leaf card.  FarmCard is imported from ./FarmCard; the card is written   *)
(* here as the specification describes it: a block with a number badge, an *)
(* image, a title and a body, a field that is not supplied left empty.     *)

Fields == {"number", "img", "title", "body"}

\* What React writes for {value}: a number as its decimal text, a string
\* as it is, nothing for undefined.
Interpolate(props, f) ==
    IF f \notin DOMAIN props THEN <<>>
    ELSE IF f = "number" THEN << Text(ToString(props[f])) >>
    ELSE << Text(props[f]) >>

\* A card that writes its title in the badge as well as in the title slot.
FarmCardBlock_titleTwice(props) ==
    El("div", NoProps,
       << El("badge", NoProps, Interpolate(props, "number") \o Interpolate(props, "title")),
          El("img", IF "img" \in DOMAIN props THEN [src |-> props.img] ELSE NoProps, <<>>),
          El("title", NoProps, Interpolate(props, "title")),
          El("body", NoProps, Interpolate(props, "body")) >>)

FarmCardBlock(props) ==
    El("div", NoProps,
       << El("badge", NoProps, Interpolate(props, "number")),
          El("img", IF "img" \in DOMAIN props THEN [src |-> props.img] ELSE NoProps, <<>>),
          El("title", NoProps, Interpolate(props, "title")),
          El("body", NoProps, Interpolate(props, "body")) >>)

FarmCard_throws(props) ==
    IF DOMAIN props = Fields
    THEN [threw |-> FALSE, output |-> FarmCardBlock(props)]
    ELSE [threw |-> TRUE, output |-> El("error", NoProps, <<>>)]

FarmCard(props) == [threw |-> FALSE, output |-> FarmCardBlock(props)]

\* The props a card can be given: those of the section's cards, with any of
\* the fields left out.
CardInputs ==
    { [f \in (DOMAIN FarmCardRecords[i].props) \ D |-> FarmCardRecords[i].props[f]] :
        i \in 1..Len(FarmCardRecords), D \in SUBSET Fields }

---------------------------------------------------------------------------
(* About page *)

Section(type) == El(type, NoProps, <<>>)

AboutSections_swapped ==
    << Section("Nav"), Section("Hero"), Section("WhyChoose"), Section("MissionVision"),
       Section("StriveFor"), Section("Testimonials"), Section("JoinUs"), Section("Team"),
       Section("FreshlyFooter") >>

AboutSections_heroFirst ==
    << Section("Hero"), Section("Nav"), Section("WhyChoose"), Section("MissionVision"),
       Section("StriveFor"), Section("Testimonials"), Section("Team"), Section("JoinUs"),
       Section("FreshlyFooter") >>

AboutSections ==
    << Section("Nav"), Section("Hero"), Section("WhyChoose"), Section("MissionVision"),
       Section("StriveFor"), Section("Testimonials"), Section("Team"), Section("JoinUs"),
       Section("FreshlyFooter") >>

About == El("div", [className |-> "overflow-x-hidden"], AboutSections)

---------------------------------------------------------------------------
(* Rendering and events *)

Components == {"About", "Team", "FarmingSystems"}

RenderOf(c) ==
    CASE c = "About" -> About
      [] c = "Team" -> Team
      [] c = "FarmingSystems" -> FarmingSystems

Blank == [component |-> "none", output |-> El("none", NoProps, <<>>)]

\* The View All button is on screen when Team is, alone or inside About.
ViewAllOnScreen == \E e \in {screen.output} :
    \/ Len(OfType(e, "button")) > 0
    \/ Len(OfType(e, "Team")) > 0

ViewAllOnClick_clears(s) == Blank

\* The button has no onClick prop: the click reaches no handler.
ViewAllOnClick(s) == s

Init ==
    /\ history = <<>>
    /\ screen = Blank
    /\ clicks = 0
    /\ card = <<>>
    /\ config = TailwindConfig

Render(c) ==
    /\ Len(history) < MaxRenders
    /\ history' = Append(history, [component |-> c, output |-> RenderOf(c)])
    /\ screen' = [component |-> c, output |-> RenderOf(c)]
    /\ UNCHANGED <<clicks, card, config>>

RenderAbout == Render("About")

RenderTeam == Render("Team")

RenderFarmingSystems == Render("FarmingSystems")

RenderFarmCard ==
    \E props \in CardInputs :
        /\ card' = << [props |-> props,
                       threw |-> FarmCard(props).threw,
                       output |-> FarmCard(props).output] >>
        /\ UNCHANGED <<history, screen, clicks, config>>

ClickViewAll ==
    /\ ViewAllOnScreen
    /\ clicks < MaxClicks
    /\ clicks' = clicks + 1
    /\ screen' = ViewAllOnClick(screen)
    /\ UNCHANGED <<history, card, config>>

Next ==
    \/ RenderAbout
    \/ RenderTeam
    \/ RenderFarmingSystems
    \/ RenderFarmCard
    \/ ClickViewAll

Spec == Init /\ [][Next]_vars

---------------------------------------------------------------------------
(* Properties *)

Rendered(c) == SelectSeq(history, LAMBDA h : h.component = c)

Outputs(c) == [i \in 1..Len(Rendered(c)) |-> Rendered(c)[i].output]

Positions(s, x) == { i \in 1..Len(s) : s[i] = x }

\* a and b both occur in s, and every a comes before every b.
Precedes(s, a, b) ==
    /\ Positions(s, a) # {}
    /\ Positions(s, b) # {}
    /\ \A i \in Positions(s, a), j \in Positions(s, b) : i < j

\* C1: every render of About emits Nav before Hero, Hero before
\* MissionVision, MissionVision before Team, Team before JoinUs and JoinUs
\* before FreshlyFooter.
AboutRendersInDeclaredOrder ==
    \A i \in 1..Len(Outputs("About")) :
        LET kids == ChildTypes(Outputs("About")[i]) IN
            /\ Precedes(kids, "Nav", "Hero")
            /\ Precedes(kids, "Hero", "MissionVision")
            /\ Precedes(kids, "MissionVision", "Team")
            /\ Precedes(kids, "Team", "JoinUs")
            /\ Precedes(kids, "JoinUs", "FreshlyFooter")

AboutRenderedTwice ==
    /\ Len(Outputs("About")) >= 2
    /\ screen.component = "About"

\* C2: in every render of About, Nav is the first child, FreshlyFooter is
\* the last, and neither occurs anywhere else.
NavFirstFooterLast ==
    \A i \in 1..Len(Outputs("About")) :
        LET kids == ChildTypes(Outputs("About")[i]) IN
            /\ Len(kids) >= 2
            /\ Positions(kids, "Nav") = {1}
            /\ Positions(kids, "FreshlyFooter") = {Len(kids)}

AboutOnScreenAfterOthers ==
    /\ Len(history) = MaxRenders
    /\ history[1].component # "About"
    /\ screen.component = "About"

\* The member blocks of a Team tree: the children of its two rows.
MemberBlocks(t) == t.children[2].children \o t.children[3].children

CardTitles(t) ==
    [k \in 1..Len(OfType(t, "FarmCard")) |-> OfType(t, "FarmCard")[k].props.title]

\* C3: FarmingSystems renders exactly its three cards, Hydroponics, Vertical,
\* Aquaponics, in that order, and Team renders exactly six member blocks.
SectionsRenderEveryRecordInOrder ==
    /\ \A i \in 1..Len(Outputs("FarmingSystems")) :
          CardTitles(Outputs("FarmingSystems")[i])
            = << "Hydroponics System", "Vertical System", "Aquaponics System" >>
    /\ \A i \in 1..Len(Outputs("Team")) :
          /\ Len(MemberBlocks(Outputs("Team")[i])) = 6
          /\ \A k \in 1..6 : MemberBlocks(Outputs("Team")[i])[k].type = "div"

BothSectionsRendered ==
    /\ Len(Outputs("FarmingSystems")) >= 1
    /\ Len(Outputs("Team")) >= 1

\* How many elements of a card block show the value of field f of props.
Shows(block, props, f) ==
    IF f = "img"
    THEN Len(SelectSeq(Flatten(block),
                       LAMBDA x : x.type = "img" /\ x.props = [src |-> props.img]))
    ELSE Len(SelectSeq(Flatten(block),
                       LAMBDA x : x.type = "#text"
                                  /\ x.props.value = (IF f = "number"
                                                      THEN ToString(props[f])
                                                      ELSE props[f])))

\* C4: a card given all four fields shows each field's value exactly once,
\* unchanged; the first card of FarmingSystems is given number 1, the image
\* /static/media/veggieRack.png and the title Hydroponics System, and the
\* block rendered for it shows that title and that image path.
CardShowsEachFieldOnce ==
    /\ \A k \in 1..Len(card) :
          DOMAIN card[k].props = Fields =>
              \A f \in Fields : Shows(card[k].output, card[k].props, f) = 1
    /\ \A i \in 1..Len(Outputs("FarmingSystems")) :
          LET first == OfType(Outputs("FarmingSystems")[i], "FarmCard")[1]
              block == FarmCard(first.props).output IN
              /\ first.props.number = 1
              /\ first.props.img = "/static/media/veggieRack.png"
              /\ first.props.title = "Hydroponics System"
              /\ Len(SelectSeq(Flatten(block),
                               LAMBDA x : x.type = "#text"
                                          /\ x.props.value = "Hydroponics System")) = 1
              /\ Len(SelectSeq(Flatten(block),
                               LAMBDA x : x.type = "img"
                                          /\ x.props = [src |-> "/static/media/veggieRack.png"])) = 1

FullCardAndSectionRendered ==
    /\ card # <<>>
    /\ DOMAIN card[1].props = Fields
    /\ card[1].props.title = "Hydroponics System"
    /\ Len(Outputs("FarmingSystems")) >= 1

\* C5: any two renders of the same component give the same output, whatever
\* was rendered or clicked in between, and a card rendered again with the
\* same props gives the same block.
RenderingIsDeterministic ==
    /\ [](\A i, j \in 1..Len(history) :
            history[i].component = history[j].component
                => history[i].output = history[j].output)
    /\ [][(card # <<>> /\ card' # <<>> /\ card'[1].props = card[1].props)
            => card'[1].output = card[1].output]_vars

TeamRenderedAroundAClick ==
    /\ Len(Outputs("Team")) >= 2
    /\ history[1].component = "Team"
    /\ history[Len(history)].component = "Team"
    /\ clicks >= 1

\* C6: the configuration has darkMode false, corePlugins.preflight false and
\* exactly the two content paths, whatever has been rendered or clicked.
ConfigIsAsDeclared ==
    /\ config.darkMode = FALSE
    /\ config.corePlugins.preflight = FALSE
    /\ config.purge = << "./src/**/*.{js,jsx,ts,tsx}", "./public/index.html" >>

ConfigAfterRendersAndClicks ==
    /\ Len(history) >= 2
    /\ clicks >= 1
    /\ card # <<>>
    /\ config.purge[2] = "./public/index.html"

\* The children of the slot of a card block that holds field f.
Slot(block, f) ==
    LET type == IF f = "number" THEN "badge" ELSE f IN
        OfType(block, type)[1]

\* C7: rendering a card with fields missing does not throw; each missing
\* field is rendered empty and each supplied field is rendered.
MissingFieldsRenderEmpty ==
    \A k \in 1..Len(card) :
        /\ ~card[k].threw
        /\ \A f \in Fields \ DOMAIN card[k].props :
              /\ Len(OfType(card[k].output, IF f = "number" THEN "badge" ELSE f)) = 1
              /\ Slot(card[k].output, f).children = <<>>
              /\ Slot(card[k].output, f).props = NoProps
        /\ \A f \in DOMAIN card[k].props :
              Shows(card[k].output, card[k].props, f) = 1

CardWithoutBodyRendered ==
    /\ card # <<>>
    /\ DOMAIN card[1].props = {"img", "title"}

\* C8: a click on View All leaves the screen, the renders made, the card and
\* the configuration as they were, and rendering again the component that is
\* on screen leaves the screen as it was.
NothingChangesState ==
    [][/\ clicks' # clicks =>
            /\ screen' = screen
            /\ history' = history
            /\ card' = card
            /\ config' = config
       /\ (Len(history') > Len(history)
             /\ history'[Len(history')].component = screen.component)
            => screen' = screen]_vars

ClickedTwiceOnTeam ==
    /\ clicks >= 2
    /\ screen.component = "Team"
    /\ screen.output = Team

CardNumbers(t) ==
    [k \in 1..Len(OfType(t, "FarmCard")) |-> OfType(t, "FarmCard")[k].props.number]

\* C9: in FarmingSystems the k-th card carries number k.
CardNumbersArePositions ==
    \A i \in 1..Len(Outputs("FarmingSystems")) :
        \A k \in 1..Len(CardNumbers(Outputs("FarmingSystems")[i])) :
            CardNumbers(Outputs("FarmingSystems")[i])[k] = k

IsMemberBlock(m) ==
    /\ ChildTypes(m) = << "div", "p", "p", "p" >>
    /\ "style" \in DOMAIN m.children[1].props
    /\ "backgroundImage" \in DOMAIN m.children[1].props.style
    /\ TextOf(m.children[2]) = << "Malaika Muchiri" >>
    /\ TextOf(m.children[3]) = << "Chief Executive Officer" >>
    /\ Len(TextOf(m.children[4])) = 1
    /\ TextOf(m.children[4])[1] \in {FreshlyQuote, LoremQuote}

\* C10: Team renders the heading Meet Our Team, a row of three member
\* blocks, a second row of three member blocks and then the one View All
\* button; every member block is image, name, role, testimonial.
TeamLayout ==
    \A i \in 1..Len(Outputs("Team")) :
        LET t == Outputs("Team")[i] IN
            /\ ChildTypes(t) = << "h5", "div", "div", "div" >>
            /\ TextOf(t.children[1]) = << "Meet Our Team" >>
            /\ Len(t.children[2].children) = 3
            /\ Len(t.children[3].children) = 3
            /\ \A k \in 1..3 : /\ IsMemberBlock(t.children[2].children[k])
                               /\ IsMemberBlock(t.children[3].children[k])
            /\ ChildTypes(t.children[4]) = << "button" >>
            /\ TextOf(t.children[4].children[1]) = << "View All" >>
            /\ Len(OfType(t, "button")) = 1

TeamOnScreen ==
    /\ Len(Outputs("Team")) >= 1
    /\ screen.component = "Team"
    /\ Len(OfType(screen.output, "button")) = 1

====
